---- MODULE Spec2Model ----
(***************************************************************************)
(* Model of the imputation + prediction pipeline of Alloyance:             *)
(*   Backend/src/autofill.py   autofill_missing_values                     *)
(*   Backend/src/predict.py    make_prediction                             *)
(*   Backend/app.py            export_report (autofill, predict, report)   *)
(*   Backend/src/report/report_tech.py   generate_report_from_dict         *)
(*   Backend/src/rag/rag_pipline.py      generate_*, _call_openrouter      *)
(*                                                                         *)
(* A dict and a one-row DataFrame are both an ordered mapping:             *)
(*   [columns |-> sequence of names, row |-> [name |-> value]].            *)
(* A value is a tagged record: None/NaN, a string, or a number.  Numbers   *)
(* are fixed-point: Num(n) stands for the float n / Scale.                 *)
(***************************************************************************)
EXTENDS Integers, Sequences, FiniteSets, TLC

VARIABLES
    imputer,          \* autofill.py: the loaded imputer artifact, or not loaded
    label_encoders,   \* autofill.py: field -> classes_, empty when not loaded
    df_training,      \* autofill.py: columns of the reference dataset, <<>> when absent
    MODELS,           \* predict.py: loaded KPI name -> model
    encoders_on_disk, \* predict.py: os.path.exists(ENCODERS_PATH) at call time
    pc,               \* position inside the running call
    input_dict,       \* argument of autofill_missing_values
    df_user,          \* autofill.py local
    df_imputed,       \* autofill.py local
    autofill_result,  \* outcome of autofill_missing_values
    autofilled_dict,  \* argument of make_prediction
    df_input,         \* predict.py local
    predictions,      \* predict.py local
    todo,             \* predict.py: metrics of MODELS.items() not yet visited
    X_seen,           \* metric -> the X_input handed to model.predict
    predict_result,   \* outcome of make_prediction
    parked,           \* pc and locals of a second run, suspended between two steps
    http,             \* app.py: the request export_report serves, and its response
    api_key,          \* rag_pipline.py: os.getenv("OPENROUTER_API_KEY") is set
    gen,              \* rag_pipline.py: the running generate_* call and its locals
    report            \* report_tech.py: locals of generate_report_from_dict

vars == <<imputer, label_encoders, df_training, MODELS, encoders_on_disk, pc,
          input_dict, df_user, df_imputed, autofill_result, autofilled_dict,
          df_input, predictions, todo, X_seen, predict_result, parked, http,
          api_key, gen, report>>

startup == <<imputer, label_encoders, df_training, MODELS, encoders_on_disk>>
\* what a step of one run leaves alone besides the startup state
elsewhere == <<parked, http, api_key, gen, report>>
reporting == <<api_key, gen, report>>
autofill_locals == <<input_dict, df_user, df_imputed, autofill_result>>
predict_locals == <<autofilled_dict, df_input, predictions, todo, X_seen, predict_result>>

----------------------------------------------------------------------------
(* Bounds of the model *)

\* Floats are represented with this many steps per unit.
Scale == 4

\* Imputed codes handed to the decode step range over -MaxCode .. MaxCode (in units).
MaxCode == 5

\* At most this many of the loaded KPI models raise during inference.
MaxFailing == 1

----------------------------------------------------------------------------
(* Values *)

Null == [t |-> "null"]
Str(s) == [t |-> "str", s |-> s]
Num(n) == [t |-> "num", n |-> n]

\* An integer as a float value.
Int2Num(i) == Num(i * Scale)

Range(s) == {s[i] : i \in 1..Len(s)}

\* pd.notna
NotNa(x) == x.t # "null"

EmptyFrame == [columns |-> <<>>, row |-> [c \in {} |-> Null]]

NoResult == [kind |-> "none"]
\* no request is being served
NoRequest == [status |-> "none", body |-> EmptyFrame, response |-> NoResult]
Ok(d) == [kind |-> "ok", value |-> d]
\* RuntimeError(prefix + str(e)) raised by the outer except clause
Err(where, msg) == [kind |-> "error", where |-> where, msg |-> msg]

----------------------------------------------------------------------------
(* Schema: a reduction of the dataset's columns to two categorical fields, *)
(* two numeric fields and the five KPI columns, in the dataset's order.    *)

TrainingColumns ==
    <<"Transport Mode", "Transport Distance (km)", "End-of-Life Treatment",
      "Environmental Impact Score",
      "Recycled Content (%)", "Resource Efficiency (%)",
      "Extended Product Life (years)", "Recovery Rate (%)", "Reuse Potential (%)">>

\* LabelEncoder.classes_ (sorted labels) per categorical field
Vocabulary ==
    [f \in {"Transport Mode", "End-of-Life Treatment"} |->
        IF f = "Transport Mode" THEN <<"Rail", "Ship", "Truck">>
        ELSE <<"Incineration", "Landfill", "Recycling", "Reuse">>]

\* label_encoders.keys(), in order
EncoderKeys == <<"Transport Mode", "End-of-Life Treatment">>

\* list(MODEL_PATHS.keys())
all_kpis ==
    <<"Recycled Content (%)", "Resource Efficiency (%)",
      "Extended Product Life (years)", "Recovery Rate (%)", "Reuse Potential (%)">>

\* categorical_cols as computed at import time
categorical_cols ==
    IF DOMAIN label_encoders # {} THEN EncoderKeys
    ELSE SelectSeq(df_training, LAMBDA c : c \in DOMAIN Vocabulary)

----------------------------------------------------------------------------
(* DataFrame helpers *)

\* pd.DataFrame([d]): one row, columns in the dict's key order
DataFrame(d) == [columns |-> d.columns, row |-> d.row]

\* variant: every column of the new index is filled with NaN
ReindexAllNaN(df, cols) ==
    [columns |-> cols, row |-> [c \in Range(cols) |-> Null]]

\* df.reindex(columns=cols, fill_value=np.nan)
Reindex(df, cols) ==
    [columns |-> cols,
     row |-> [c \in Range(cols) |->
                 IF c \in Range(df.columns) THEN df.row[c] ELSE Null]]

\* df[col] = df[col].map(f)
MapColumn(df, col, F(_)) ==
    [df EXCEPT !.row = [c \in DOMAIN df.row |->
                           IF c = col THEN F(df.row[c]) ELSE df.row[c]]]

\* Step 2 of autofill_missing_values
Align(df) ==
    IF df_training # <<>> THEN Reindex(df, df_training) ELSE df

----------------------------------------------------------------------------
(* Categorical codec *)

\* x in le.classes_
InClasses(le, x) == x.t = "str" /\ \E i \in 1..Len(le) : le[i] = x.s

\* variant: one-based position
TransformOneBased(le, x) == CHOOSE i \in 1..Len(le) : le[i] = x.s

\* le.transform([x])[0], for x in le.classes_
Transform(le, x) == (CHOOSE i \in 1..Len(le) : le[i] = x.s) - 1

\* variant: a miss is encoded as code 0
EncodeValueMissZero(le, x) ==
    IF NotNa(x) /\ InClasses(le, x) THEN Int2Num(Transform(le, x)) ELSE Int2Num(0)

\* autofill.py step 3 lambda
EncodeValue(le, x) ==
    IF NotNa(x) /\ InClasses(le, x) THEN Int2Num(Transform(le, x)) ELSE Int2Num(-1)

\* variant: the label is looked up in the vocabulary in reverse order
PredictEncodeValueReversed(le, x) ==
    IF InClasses(le, x) THEN Int2Num(Len(le) - 1 - Transform(le, x)) ELSE Int2Num(-1)

\* predict.py step 1 lambda
PredictEncodeValue(le, x) ==
    IF InClasses(le, x) THEN Int2Num(Transform(le, x)) ELSE Int2Num(-1)

\* variant: astype(int) without round(), the fraction is cut off
RoundTruncate(n) ==
    IF n >= 0 THEN n \div Scale ELSE 0 - ((0 - n) \div Scale)

\* Series.round(): numpy rounds half to even
Round(n) ==
    LET q == n \div Scale
        r == n % Scale
    IN  IF 2 * r < Scale THEN q
        ELSE IF 2 * r > Scale THEN q + 1
        ELSE IF q % 2 = 0 THEN q ELSE q + 1

Raised(e) == [t |-> "raise", e |-> e]

\* le.classes_[x]: numpy indexing, negative indices count from the end
ClassesAt(le, x) ==
    IF 0 <= x /\ x < Len(le) THEN Str(le[x + 1])
    ELSE IF x < 0 /\ x >= 0 - Len(le) THEN Str(le[Len(le) + x + 1])
    ELSE Raised("IndexError")

\* variant: a negative code is out of range and decoded to the sentinel
DecodeIntChecked(le, x) ==
    IF 0 <= x /\ x < Len(le) THEN ClassesAt(le, x) ELSE Str("Unknown")

\* autofill.py step 5 lambda, applied to the rounded integer x
DecodeInt(le, x) ==
    IF x < Len(le) THEN ClassesAt(le, x) ELSE Str("Unknown")

\* autofill.py step 5 for one value: round().astype(int), then the lambda
DecodeValue(le, v) == DecodeInt(le, Round(v.n))

----------------------------------------------------------------------------
(* autofill_missing_values, step by step *)

\* Step 3: the loop over categorical_cols
EncodeFrame(df) ==
    [df EXCEPT !.row =
        [c \in DOMAIN df.row |->
            IF c \in Range(categorical_cols) /\ c \in DOMAIN label_encoders
            THEN EncodeValue(label_encoders[c], df.row[c])
            ELSE df.row[c]]]

RECURSIVE SumNumeric(_, _)
\* sum of the numeric entries of a row, over the columns cols
SumNumeric(cols, row) ==
    IF cols = <<>> THEN 0
    ELSE (IF row[Head(cols)].t = "num" THEN row[Head(cols)].n ELSE 0)
         + SumNumeric(Tail(cols), row)

\* The value the imputer estimates for a missing entry: a fixed function of
\* the vector it is handed.
ImputedValue(imp, df) ==
    Num(imp.base + (IF imp.dep THEN SumNumeric(df.columns, df.row) ELSE 0))

\* imputer.transform(df_user): rejects non-numeric data and a wrong width,
\* fills the missing entries and leaves the others as they are.
ImputerTransform(imp, df) ==
    IF \E c \in DOMAIN df.row : df.row[c].t = "str"
    THEN [ok |-> FALSE, msg |-> "ValueError"]
    ELSE IF Len(df.columns) # Len(TrainingColumns)
    THEN [ok |-> FALSE, msg |-> "ValueError"]
    ELSE [ok |-> TRUE,
          df |-> [df EXCEPT !.row =
                    [c \in DOMAIN df.row |->
                        IF NotNa(df.row[c]) THEN df.row[c]
                        ELSE ImputedValue(imp, df)]]]

RECURSIVE DecodeFrame(_, _)
\* Step 5: the loop over cols (the rest of categorical_cols)
DecodeFrame(df, cols) ==
    IF cols = <<>> THEN [ok |-> TRUE, df |-> df]
    ELSE LET col == Head(cols) IN
         IF col \notin DOMAIN label_encoders THEN DecodeFrame(df, Tail(cols))
         ELSE IF col \notin Range(df.columns) THEN [ok |-> FALSE, msg |-> "KeyError"]
         ELSE LET v == DecodeValue(label_encoders[col], df.row[col]) IN
              IF v.t = "raise" THEN [ok |-> FALSE, msg |-> v.e]
              ELSE DecodeFrame([df EXCEPT !.row[col] = v], Tail(cols))

\* Step 6: df_imputed.iloc[0].to_dict()
ToDict(df) == [columns |-> df.columns, row |-> df.row]

AutofillCall(d) ==
    /\ pc = "idle"
    /\ pc' = "a_step1"
    /\ input_dict' = d
    /\ df_user' = EmptyFrame
    /\ df_imputed' = EmptyFrame
    /\ autofill_result' = NoResult
    /\ UNCHANGED <<startup, elsewhere, predict_locals>>

AutofillStep1 ==
    /\ pc = "a_step1"
    /\ df_user' = DataFrame(input_dict)
    /\ pc' = "a_step2"
    /\ UNCHANGED <<startup, elsewhere, input_dict, df_imputed, autofill_result, predict_locals>>

AutofillStep2 ==
    /\ pc = "a_step2"
    /\ df_user' = Align(df_user)
    /\ pc' = "a_step3"
    /\ UNCHANGED <<startup, elsewhere, input_dict, df_imputed, autofill_result, predict_locals>>

\* variant: a label the encoder has not seen is added to its classes_
AutofillStep3Learn ==
    /\ pc = "a_step3"
    /\ df_user' = EncodeFrame(df_user)
    /\ pc' = "a_step4"
    /\ label_encoders' =
          [c \in DOMAIN label_encoders |->
              IF /\ c \in DOMAIN df_user.row
                 /\ df_user.row[c].t = "str"
                 /\ ~InClasses(label_encoders[c], df_user.row[c])
              THEN Append(label_encoders[c], df_user.row[c].s)
              ELSE label_encoders[c]]
    /\ UNCHANGED <<imputer, df_training, MODELS, encoders_on_disk>>
    /\ UNCHANGED <<elsewhere, input_dict, df_imputed, autofill_result, predict_locals>>

AutofillStep3 ==
    /\ pc = "a_step3"
    /\ df_user' = EncodeFrame(df_user)
    /\ pc' = "a_step4"
    /\ UNCHANGED <<startup, elsewhere, input_dict, df_imputed, autofill_result, predict_locals>>

\* variant: the except clause raises a fixed text and drops str(e)
AutofillRaiseNoMessage(msg) ==
    /\ autofill_result' = Err("autofill", "")
    /\ pc' = "a_done"

\* what the except clause makes of an exception raised in the try block
AutofillRaise(msg) ==
    /\ autofill_result' = Err("autofill", msg)
    /\ pc' = "a_done"

\* variant: without an imputer the encoded record is passed on as it is
AutofillStep4Skip ==
    /\ pc = "a_step4"
    /\ IF imputer.loaded
       THEN LET r == ImputerTransform(imputer, df_user) IN
            IF r.ok
            THEN /\ df_imputed' = r.df
                 /\ pc' = "a_step5"
                 /\ UNCHANGED autofill_result
            ELSE /\ AutofillRaise(r.msg)
                 /\ UNCHANGED df_imputed
       ELSE /\ df_imputed' = df_user
            /\ pc' = "a_step5"
            /\ UNCHANGED autofill_result
    /\ UNCHANGED <<startup, elsewhere, input_dict, df_user, predict_locals>>

AutofillStep4 ==
    /\ pc = "a_step4"
    /\ IF imputer.loaded
       THEN LET r == ImputerTransform(imputer, df_user) IN
            IF r.ok
            THEN /\ df_imputed' = r.df
                 /\ pc' = "a_step5"
                 /\ UNCHANGED autofill_result
            ELSE /\ AutofillRaise(r.msg)
                 /\ UNCHANGED df_imputed
       ELSE /\ AutofillRaise("No imputer found")
            /\ UNCHANGED df_imputed
    /\ UNCHANGED <<startup, elsewhere, input_dict, df_user, predict_locals>>

AutofillStep5 ==
    /\ pc = "a_step5"
    /\ LET r == DecodeFrame(df_imputed, categorical_cols) IN
       IF r.ok
       THEN /\ df_imputed' = r.df
            /\ pc' = "a_step6"
            /\ UNCHANGED autofill_result
       ELSE /\ AutofillRaise(r.msg)
            /\ UNCHANGED df_imputed
    /\ UNCHANGED <<startup, elsewhere, input_dict, df_user, predict_locals>>

AutofillStep6 ==
    /\ pc = "a_step6"
    /\ autofill_result' = Ok(ToDict(df_imputed))
    /\ pc' = "a_done"
    /\ UNCHANGED <<startup, elsewhere, input_dict, df_user, df_imputed, predict_locals>>

\* the caller takes the outcome; the process is ready for the next call
AutofillFinish ==
    /\ pc = "a_done"
    /\ pc' = "idle"
    /\ input_dict' = EmptyFrame
    /\ df_user' = EmptyFrame
    /\ df_imputed' = EmptyFrame
    /\ autofill_result' = NoResult
    /\ UNCHANGED <<startup, elsewhere, predict_locals>>

----------------------------------------------------------------------------
(* make_prediction, step by step *)

\* joblib.load(ENCODERS_PATH) inside make_prediction: the artifact on disk
LoadEncoders == Vocabulary

\* Step 1: the loop over label_encoders.items()
PredictEncodeFrame(df, encoders) ==
    [df EXCEPT !.row =
        [c \in DOMAIN df.row |->
            IF c \in DOMAIN encoders
            THEN PredictEncodeValue(encoders[c], df.row[c])
            ELSE df.row[c]]]

\* df.drop(columns=cols, errors="ignore")
Drop(df, cols) ==
    LET keep == SelectSeq(df.columns, LAMBDA c : c \notin Range(cols)) IN
    [columns |-> keep, row |-> [c \in Range(keep) |-> df.row[c]]]

\* position of a KPI in MODEL_PATHS
KpiIndex(metric) == CHOOSE i \in 1..Len(all_kpis) : all_kpis[i] = metric

\* model.predict(X_input) followed by float(y_pred[0]): a fixed function of
\* the features; a model may raise, and none accepts string features.
ModelPredict(model, metric, X) ==
    IF model.raises \/ \E c \in DOMAIN X.row : X.row[c].t = "str"
    THEN Raised("PredictError")
    ELSE Num(KpiIndex(metric) * Scale + SumNumeric(X.columns, X.row))

\* variant: only the predictor's own target is excluded
FeaturesForOwnOnly(metric, df) == Drop(df, <<metric>>)

\* X_input of one loop iteration
FeaturesFor(metric, df) == Drop(df, all_kpis)

\* variant: once a predictor has failed, the predictors after it store None
PredictOneSticky(metric, df) ==
    LET y == ModelPredict(MODELS[metric], metric, FeaturesFor(metric, df)) IN
    IF y.t = "raise" \/ \E k \in DOMAIN predictions.row : predictions.row[k] = Null
    THEN Null ELSE y

\* one iteration of the loop of step 2: the value stored in predictions[metric]
PredictOne(metric, df) ==
    LET y == ModelPredict(MODELS[metric], metric, FeaturesFor(metric, df)) IN
    IF y.t = "raise" THEN Null ELSE y

\* variant: a key the dict already has moves to the end
DictSetMoveToEnd(d, k, v) ==
    [columns |-> Append(SelectSeq(d.columns, LAMBDA c : c # k), k),
     row |-> [c \in DOMAIN d.row \cup {k} |-> IF c = k THEN v ELSE d.row[c]]]

\* d[k] = v on an insertion-ordered dict
DictSet(d, k, v) ==
    [columns |-> IF k \in Range(d.columns) THEN d.columns ELSE Append(d.columns, k),
     row |-> [c \in DOMAIN d.row \cup {k} |-> IF c = k THEN v ELSE d.row[c]]]

RECURSIVE DictUpdate(_, _, _)
\* d.update(e), for the keys ks of e still to be copied
DictUpdate(d, e, ks) ==
    IF ks = <<>> THEN d
    ELSE DictUpdate(DictSet(d, Head(ks), e.row[Head(ks)]), e, Tail(ks))

\* variant: a key the input already holds keeps the input's value
MergeInputWins(a, b) ==
    DictUpdate(a, b, SelectSeq(b.columns, LAMBDA k : k \notin Range(a.columns)))

\* {**a, **b}
Merge(a, b) == DictUpdate(a, b, b.columns)

\* MODELS.items() keys: insertion order follows MODEL_PATHS
LoadedMetrics == SelectSeq(all_kpis, LAMBDA m : m \in DOMAIN MODELS)

PredictCall(d) ==
    /\ pc = "idle"
    /\ pc' = "p_start"
    /\ autofilled_dict' = d
    /\ df_input' = EmptyFrame
    /\ predictions' = EmptyFrame
    /\ todo' = <<>>
    /\ X_seen' = [m \in {} |-> EmptyFrame]
    /\ predict_result' = NoResult
    /\ UNCHANGED <<startup, elsewhere, autofill_locals>>

\* what the outer except clause makes of an exception
PredictRaise(msg) ==
    /\ predict_result' = Err("predict", msg)
    /\ pc' = "p_done"

\* variant: without the guard on an empty MODELS
PredictStartNoGuard ==
    /\ pc = "p_start"
    /\ df_input' = DataFrame(autofilled_dict)
    /\ pc' = "p_step1"
    /\ UNCHANGED predict_result
    /\ UNCHANGED <<startup, elsewhere, autofill_locals, autofilled_dict, predictions, todo, X_seen>>

PredictStart ==
    /\ pc = "p_start"
    /\ IF DOMAIN MODELS = {}
       THEN /\ PredictRaise("No prediction models found")
            /\ UNCHANGED df_input
       ELSE /\ df_input' = DataFrame(autofilled_dict)
            /\ pc' = "p_step1"
            /\ UNCHANGED predict_result
    /\ UNCHANGED <<startup, elsewhere, autofill_locals, autofilled_dict, predictions, todo, X_seen>>

\* variant: the frame is a view of the dict, encoding writes through to it
PredictStep1InPlace ==
    /\ pc = "p_step1"
    /\ df_input' = IF encoders_on_disk
                   THEN PredictEncodeFrame(df_input, LoadEncoders)
                   ELSE df_input
    /\ autofilled_dict' = ToDict(df_input')
    /\ predictions' = EmptyFrame
    /\ todo' = LoadedMetrics
    /\ pc' = "p_step2"
    /\ UNCHANGED <<startup, elsewhere, autofill_locals, X_seen, predict_result>>

PredictStep1 ==
    /\ pc = "p_step1"
    /\ df_input' = IF encoders_on_disk
                   THEN PredictEncodeFrame(df_input, LoadEncoders)
                   ELSE df_input
    /\ predictions' = EmptyFrame
    /\ todo' = LoadedMetrics
    /\ pc' = "p_step2"
    /\ UNCHANGED <<startup, elsewhere, autofill_locals, autofilled_dict, X_seen, predict_result>>

\* variant: no inner try, a predictor's exception reaches the outer except
PredictStep2NoTry ==
    /\ pc = "p_step2"
    /\ todo # <<>>
    /\ LET metric == Head(todo)
           X_input == FeaturesFor(metric, df_input)
           y == ModelPredict(MODELS[metric], metric, X_input)
       IN  /\ X_seen' = [m \in DOMAIN X_seen \cup {metric} |->
                            IF m = metric THEN X_input ELSE X_seen[m]]
           /\ IF y.t = "raise"
              THEN /\ PredictRaise(y.e)
                   /\ UNCHANGED <<predictions, todo>>
              ELSE /\ predictions' = DictSet(predictions, metric, y)
                   /\ todo' = Tail(todo)
                   /\ UNCHANGED <<pc, predict_result>>
    /\ UNCHANGED <<startup, elsewhere, autofill_locals, autofilled_dict, df_input>>

PredictStep2 ==
    /\ pc = "p_step2"
    /\ todo # <<>>
    /\ LET metric == Head(todo) IN
       /\ X_seen' = [m \in DOMAIN X_seen \cup {metric} |->
                        IF m = metric THEN FeaturesFor(metric, df_input) ELSE X_seen[m]]
       /\ predictions' = DictSet(predictions, metric, PredictOne(metric, df_input))
    /\ todo' = Tail(todo)
    /\ UNCHANGED <<startup, elsewhere, autofill_locals, autofilled_dict, df_input, predict_result, pc>>

PredictStep3 ==
    /\ pc = "p_step2"
    /\ todo = <<>>
    /\ predict_result' = Ok(Merge(autofilled_dict, predictions))
    /\ pc' = "p_done"
    /\ UNCHANGED <<startup, elsewhere, autofill_locals, autofilled_dict, df_input, predictions, todo, X_seen>>

PredictFinish ==
    /\ pc = "p_done"
    /\ pc' = "idle"
    /\ autofilled_dict' = EmptyFrame
    /\ df_input' = EmptyFrame
    /\ predictions' = EmptyFrame
    /\ todo' = <<>>
    /\ X_seen' = [m \in {} |-> EmptyFrame]
    /\ predict_result' = NoResult
    /\ UNCHANGED <<startup, elsewhere, autofill_locals>>

----------------------------------------------------------------------------
(* export_report: autofill, then predict on its result *)

ExportPredict ==
    /\ pc = "a_done"
    /\ autofill_result.kind = "ok"
    /\ pc' = "p_start"
    /\ autofilled_dict' = autofill_result.value
    /\ df_input' = EmptyFrame
    /\ predictions' = EmptyFrame
    /\ todo' = <<>>
    /\ X_seen' = [m \in {} |-> EmptyFrame]
    /\ predict_result' = NoResult
    /\ UNCHANGED <<startup, elsewhere, autofill_locals>>

\* the two calls of export_report on their own: the caller is done with
\* them after a failed autofill, or after make_prediction
ExportReturn ==
    /\ \/ pc = "a_done" /\ autofill_result.kind = "error"
       \/ pc = "p_done"
    /\ pc' = "idle"
    /\ input_dict' = EmptyFrame
    /\ df_user' = EmptyFrame
    /\ df_imputed' = EmptyFrame
    /\ autofill_result' = NoResult
    /\ autofilled_dict' = EmptyFrame
    /\ df_input' = EmptyFrame
    /\ predictions' = EmptyFrame
    /\ todo' = <<>>
    /\ X_seen' = [m \in {} |-> EmptyFrame]
    /\ predict_result' = NoResult
    /\ http' = NoRequest
    /\ UNCHANGED <<startup, parked, reporting>>

----------------------------------------------------------------------------
(* The request model InputData and the entry of export_report *)

\* the fields of InputData kept by the reduction, by alias, in declaration order
RequestFields ==
    <<"Transport Mode", "Transport Distance (km)", "End-of-Life Treatment",
      "Environmental Impact Score">>

\* the fields declared with Field(...): no default, the type is not Optional
RequiredFields ==
    {"Transport Mode", "Transport Distance (km)", "End-of-Life Treatment"}

\* the Literal[...] of a categorical field
Literals ==
    [f \in {"Transport Mode", "End-of-Life Treatment"} |->
        IF f = "Transport Mode" THEN {"Rail", "Truck", "Ship"}
        ELSE {"Incineration", "Recycling", "Reuse", "Landfill"}]

\* the type and the constraint of one field, on a value that is not None
FieldAccepts(f, v) ==
    IF f \in DOMAIN Literals THEN v.t = "str" /\ v.s \in Literals[f]
    ELSE v.t = "num" /\ v.n >= 0

\* variant: every field is declared Optional with default None
ValidateAllOptional(body) ==
    \A f \in Range(RequestFields) :
        (f \in Range(body.columns) /\ body.row[f] # Null) => FieldAccepts(f, body.row[f])

\* pydantic validation of the request body against InputData
Validate(body) ==
    \A f \in Range(RequestFields) :
        IF f \in Range(body.columns) /\ body.row[f] # Null
        THEN FieldAccepts(f, body.row[f])
        ELSE f \notin RequiredFields

\* input_data.model_dump(by_alias=True): every field of the model, the
\* fields the request left out at their default None
ModelDump(body) ==
    [columns |-> RequestFields,
     row |-> [f \in Range(RequestFields) |->
                 IF f \in Range(body.columns) THEN body.row[f] ELSE Null]]

\* POST /api/reports/export: a body that fails validation is answered with
\* 422 before export_report runs; otherwise export_report calls
\* autofill_missing_values on the dumped model
ExportRequest(body) ==
    /\ pc = "idle"
    /\ IF Validate(body)
       THEN /\ http' = [status |-> "accepted", body |-> body, response |-> NoResult]
            /\ pc' = "a_step1"
            /\ input_dict' = ModelDump(body)
       ELSE /\ http' = [status |-> "422", body |-> body, response |-> NoResult]
            /\ UNCHANGED <<pc, input_dict>>
    /\ UNCHANGED <<df_user, df_imputed, autofill_result>>
    /\ UNCHANGED <<startup, parked, predict_locals, reporting>>

----------------------------------------------------------------------------
(* rag_pipline.py: text generation through OpenRouter, with static texts    *)
(* to fall back on                                                          *)

PRIMARY_MODEL == "google/gemini-2.0-flash-exp:free"
FALLBACK_MODEL == "mistralai/mistral-nemo:free"

\* no generate_* call is running
NoCall == [fn |-> "none", args |-> [a \in {} |-> Null], calls |-> <<>>,
           text |-> Null, result |-> NoResult]

\* generate_report_from_dict is not running
NoReport == [data |-> EmptyFrame, exec_summary |-> Null, circ_analysis |-> Null,
             result |-> NoResult]

\* what _try_model may do: raise, or return the stripped content
Completions == {Raised("APIError"), Str(""), Str("model text")}

\* the parameters of the public functions, in order
Parameters ==
    [generate_summary |->
        <<"material", "circ_score", "recycled_content", "reuse_potential",
          "recovery_rate">>,
     generate_circularity_analysis |->
        <<"material", "circ_score", "recycled_content", "reuse_potential",
          "recovery_rate">>,
     generate_emission_interpretation |->
        <<"material", "process_stage", "emission_co2", "emission_sox",
          "emission_nox", "emission_pm", "emission_amd", "emission_hm",
          "emission_bod", "ghg_emissions">>,
     generate_energy_efficiency_analysis |->
        <<"material", "process_stage", "technology", "energy_input_qty">>,
     generate_benchmark_analysis |->
        <<"material", "circ_score", "recycled_content", "reuse_potential",
          "recovery_rate">>,
     generate_action_recommendations |->
        <<"material", "process_stage", "technology", "circ_score",
          "recycled_content", "reuse_potential", "recovery_rate",
          "ghg_emissions", "energy_input_qty">>]

\* the replacement fields of each static text, in order of appearance:
\* "{x}" is plain, "{x:.1f}" formats a float, "{x.lower()}" calls str.lower
FallbackFields ==
    [generate_summary |->
        << <<"material", "plain">>, <<"circ_score", "plain">>,
           <<"recycled_content", "plain">>, <<"reuse_potential", "plain">>,
           <<"recovery_rate", "plain">> >>,
     generate_circularity_analysis |->
        << <<"recycled_content", "plain">>, <<"material", "plain">>,
           <<"reuse_potential", "plain">>, <<"recovery_rate", "plain">>,
           <<"circ_score", "plain">> >>,
     generate_emission_interpretation |->
        << <<"process_stage", "lower">>, <<"material", "lower">> >>,
     generate_energy_efficiency_analysis |->
        << <<"technology", "lower">>, <<"process_stage", "lower">>,
           <<"energy_input_qty", ".1f">> >>,
     generate_benchmark_analysis |->
        << <<"circ_score", ".1f">>, <<"material", "lower">>,
           <<"recycled_content", ".1f">>, <<"recovery_rate", ".1f">> >>,
     generate_action_recommendations |->
        << <<"material", "lower">>, <<"process_stage", "lower">>,
           <<"technology", "lower">>, <<"ghg_emissions", ".1f">>,
           <<"recycled_content", ".1f">>, <<"reuse_potential", ".1f">>,
           <<"recovery_rate", ".1f">>, <<"energy_input_qty", ".1f">> >>]

\* one replacement field of an f-string applied to a value: "ok", or the
\* exception it raises
FormatField(v, how) ==
    CASE how = "plain" -> "ok"
      [] how = ".1f" -> IF v.t = "num" THEN "ok"
                        ELSE IF v.t = "null" THEN "TypeError" ELSE "ValueError"
      [] how = "lower" -> IF v.t = "str" THEN "ok" ELSE "AttributeError"

\* the fields are evaluated left to right; the first that raises ends it
RECURSIVE FormatAll(_, _)
FormatAll(fields, args) ==
    IF fields = <<>> THEN "ok"
    ELSE LET first == FormatField(args[fields[1][1]], fields[1][2]) IN
         IF first # "ok" THEN first ELSE FormatAll(Tail(fields), args)

\* variant: every static text formats its fields in a way that rejects None
FallbackTextStrict(fn, args) ==
    IF \E a \in DOMAIN args : args[a] = Null
    THEN Err("fallback", "TypeError") ELSE Ok(Str("static text"))

\* _fallback_*(...): the static text, or the exception of its f-string
FallbackText(fn, args) ==
    LET outcome == FormatAll(FallbackFields[fn], args) IN
    IF outcome = "ok" THEN Ok(Str("static text")) ELSE Err("fallback", outcome)

\* a public generate_* function is entered; PROMPT.format(...) has only
\* plain fields and accepts any value; _call_openrouter is entered
GenerateCall(fn, args) ==
    /\ pc = "idle"
    /\ pc' = "o_key"
    /\ gen' = [fn |-> fn, args |-> args, calls |-> <<>>, text |-> Null,
               result |-> NoResult]
    /\ UNCHANGED <<startup, autofill_locals, predict_locals, parked, http,
                   api_key, report>>

\* _call_openrouter: if not os.getenv("OPENROUTER_API_KEY"): return ""
CallOpenrouterKey ==
    /\ pc = "o_key"
    /\ IF api_key
       THEN /\ pc' = "o_primary"
            /\ UNCHANGED gen
       ELSE /\ pc' = "g_return"
            /\ gen' = [gen EXCEPT !.text = Str("")]
    /\ UNCHANGED <<startup, autofill_locals, predict_locals, parked, http,
                   api_key, report>>

\* variant: an empty completion of the primary model is retried on the
\* fallback model, as a failure is
TryPrimaryRetryEmpty(completion) ==
    /\ pc = "o_primary"
    /\ IF completion.t = "raise" \/ completion = Str("")
       THEN /\ pc' = "o_fallback"
            /\ gen' = [gen EXCEPT
                         !.calls = Append(@, <<PRIMARY_MODEL, completion>>)]
       ELSE /\ pc' = "g_return"
            /\ gen' = [gen EXCEPT
                         !.calls = Append(@, <<PRIMARY_MODEL, completion>>),
                         !.text = completion]
    /\ UNCHANGED <<startup, autofill_locals, predict_locals, parked, http,
                   api_key, report>>

\* try: return _try_model(PRIMARY_MODEL)
TryPrimary(completion) ==
    /\ pc = "o_primary"
    /\ IF completion.t = "raise"
       THEN /\ pc' = "o_fallback"
            /\ gen' = [gen EXCEPT
                         !.calls = Append(@, <<PRIMARY_MODEL, completion>>)]
       ELSE /\ pc' = "g_return"
            /\ gen' = [gen EXCEPT
                         !.calls = Append(@, <<PRIMARY_MODEL, completion>>),
                         !.text = completion]
    /\ UNCHANGED <<startup, autofill_locals, predict_locals, parked, http,
                   api_key, report>>

\* except Exception: try: return _try_model(FALLBACK_MODEL)
\*                   except Exception: return ""
TryFallback(completion) ==
    /\ pc = "o_fallback"
    /\ pc' = "g_return"
    /\ gen' = [gen EXCEPT
                 !.calls = Append(@, <<FALLBACK_MODEL, completion>>),
                 !.text = IF completion.t = "raise" THEN Str("") ELSE completion]
    /\ UNCHANGED <<startup, autofill_locals, predict_locals, parked, http,
                   api_key, report>>

\* return result or _fallback_*(...)
GenerateReturn ==
    /\ pc = "g_return"
    /\ pc' = "g_done"
    /\ gen' = [gen EXCEPT
                 !.result = IF gen.text # Str("") THEN Ok(gen.text)
                            ELSE FallbackText(gen.fn, gen.args)]
    /\ UNCHANGED <<startup, autofill_locals, predict_locals, parked, http,
                   api_key, report>>

\* the caller of a generate_* function that is not the report has its text
GenerateFinish ==
    /\ pc = "g_done"
    /\ report = NoReport
    /\ pc' = "idle"
    /\ gen' = NoCall
    /\ UNCHANGED <<startup, autofill_locals, predict_locals, parked, http,
                   api_key, report>>

----------------------------------------------------------------------------
(* report_tech.py: generate_report_from_dict, and the rest of export_report *)

\* dict.get(key, default): a key that is present with None yields None
Get(d, k, default) == IF k \in Range(d.columns) THEN d.row[k] ELSE default

\* the values generate_report_from_dict extracts from its argument
Extract(data) ==
    [material |-> Get(data, "Raw Material Type", Str("Unknown Material")),
     circ_score |-> Get(data, "Circularity_Score", Num(0)),
     recycled_content |-> Get(data, "Recycled Content (%)", Num(0)),
     reuse_potential |-> Get(data, "Reuse Potential (%)", Num(0)),
     recovery_rate |-> Get(data, "Recovery Rate (%)", Num(0))]

\* report_path of export_report
report_path == Str("report.pdf")

\* export_report calls generate_report_from_dict on the prediction record;
\* the record is a dict, the values are extracted, generate_summary is called
ExportReport ==
    /\ pc = "p_done"
    /\ predict_result.kind = "ok"
    /\ pc' = "o_key"
    /\ report' = [data |-> predict_result.value, exec_summary |-> Null,
                  circ_analysis |-> Null, result |-> NoResult]
    /\ gen' = [fn |-> "generate_summary", args |-> Extract(predict_result.value),
               calls |-> <<>>, text |-> Null, result |-> NoResult]
    /\ UNCHANGED <<startup, autofill_locals, predict_locals, parked, http,
                   api_key>>

\* exec_summary = generate_summary(...); generate_circularity_analysis is called
ReportSummary ==
    /\ pc = "g_done"
    /\ report # NoReport
    /\ gen.fn = "generate_summary"
    /\ IF gen.result.kind = "ok"
       THEN /\ pc' = "o_key"
            /\ report' = [report EXCEPT !.exec_summary = gen.result.value]
            /\ gen' = [fn |-> "generate_circularity_analysis",
                       args |-> Extract(report.data), calls |-> <<>>,
                       text |-> Null, result |-> NoResult]
       ELSE /\ pc' = "r_done"
            /\ report' = [report EXCEPT !.result = Err("report", gen.result.msg)]
            /\ gen' = NoCall
    /\ UNCHANGED <<startup, autofill_locals, predict_locals, parked, http,
                   api_key>>

\* circ_analysis = generate_circularity_analysis(...)
ReportCircularity ==
    /\ pc = "g_done"
    /\ report # NoReport
    /\ gen.fn = "generate_circularity_analysis"
    /\ IF gen.result.kind = "ok"
       THEN /\ pc' = "r_build"
            /\ report' = [report EXCEPT !.circ_analysis = gen.result.value]
       ELSE /\ pc' = "r_done"
            /\ report' = [report EXCEPT !.result = Err("report", gen.result.msg)]
    /\ gen' = NoCall
    /\ UNCHANGED <<startup, autofill_locals, predict_locals, parked, http,
                   api_key>>

\* the sections are added (a text that is None or empty is replaced by a
\* placeholder) and doc.build(story) writes the file, which the file system
\* may refuse; return output_file
ReportBuild(written) ==
    /\ pc = "r_build"
    /\ pc' = "r_done"
    /\ report' = [report EXCEPT
                    !.result = IF written THEN Ok(report_path)
                               ELSE Err("report", "OSError")]
    /\ UNCHANGED <<startup, autofill_locals, predict_locals, parked, http,
                   api_key, gen>>

\* the stage of export_report that raised, if any
Raising ==
    IF autofill_result.kind = "error" THEN autofill_result
    ELSE IF predict_result.kind = "error" THEN predict_result
    ELSE IF report.result.kind = "error" THEN report.result
    ELSE NoResult

\* variant: only a failed autofill ends in a 500; what a later stage raised
\* is swallowed
ExportRespondSwallow ==
    /\ \/ pc = "a_done" /\ autofill_result.kind = "error"
       \/ pc = "p_done" /\ predict_result.kind = "error"
       \/ pc = "r_done"
    /\ pc' = "responded"
    /\ http' = [http EXCEPT
                  !.response =
                      IF autofill_result.kind = "error"
                      THEN [status_code |-> 500, content |-> Raising]
                      ELSE [status_code |-> 200, content |-> report_path]]
    /\ UNCHANGED <<startup, autofill_locals, predict_locals, parked, reporting>>

\* export_report ends: return FileResponse(path=report_path, ...), or
\* except Exception as e: raise HTTPException(500, "Error generating report: " + str(e))
ExportRespond ==
    /\ \/ pc = "a_done" /\ autofill_result.kind = "error"
       \/ pc = "p_done" /\ predict_result.kind = "error"
       \/ pc = "r_done"
    /\ pc' = "responded"
    /\ http' = [http EXCEPT
                  !.response =
                      IF Raising # NoResult
                      THEN [status_code |-> 500, content |-> Raising]
                      ELSE [status_code |-> 200, content |-> report_path]]
    /\ UNCHANGED <<startup, autofill_locals, predict_locals, parked, reporting>>

\* the response is sent and the locals of the request are gone
ExportClose ==
    /\ pc = "responded"
    /\ pc' = "idle"
    /\ input_dict' = EmptyFrame
    /\ df_user' = EmptyFrame
    /\ df_imputed' = EmptyFrame
    /\ autofill_result' = NoResult
    /\ autofilled_dict' = EmptyFrame
    /\ df_input' = EmptyFrame
    /\ predictions' = EmptyFrame
    /\ todo' = <<>>
    /\ X_seen' = [m \in {} |-> EmptyFrame]
    /\ predict_result' = NoResult
    /\ http' = NoRequest
    /\ gen' = NoCall
    /\ report' = NoReport
    /\ UNCHANGED <<startup, parked, api_key>>

----------------------------------------------------------------------------
(* Two requests in progress at once *)

\* pc and locals of the run that is executing
CurrentRun ==
    [pc |-> pc, input_dict |-> input_dict, df_user |-> df_user,
     df_imputed |-> df_imputed, autofill_result |-> autofill_result,
     autofilled_dict |-> autofilled_dict, df_input |-> df_input,
     predictions |-> predictions, todo |-> todo, X_seen |-> X_seen,
     predict_result |-> predict_result]

\* the server suspends the executing run between two steps and resumes the
\* other one; the module-level state is common to both
Switch ==
    /\ parked' = CurrentRun
    /\ pc' = parked.pc
    /\ input_dict' = parked.input_dict
    /\ df_user' = parked.df_user
    /\ df_imputed' = parked.df_imputed
    /\ autofill_result' = parked.autofill_result
    /\ autofilled_dict' = parked.autofilled_dict
    /\ df_input' = parked.df_input
    /\ predictions' = parked.predictions
    /\ todo' = parked.todo
    /\ X_seen' = parked.X_seen
    /\ predict_result' = parked.predict_result
    /\ UNCHANGED <<startup, http, reporting>>

----------------------------------------------------------------------------
(* The encoder artifact on disk after startup *)

\* label_encoders.pkl is removed, or written, while the process runs
ArtifactChange ==
    /\ encoders_on_disk' = ~encoders_on_disk
    /\ UNCHANGED <<imputer, label_encoders, df_training, MODELS>>
    /\ UNCHANGED <<pc, autofill_locals, predict_locals, elsewhere>>

----------------------------------------------------------------------------
(* Inputs *)

Reverse(s) == [i \in 1..Len(s) |-> s[Len(s) + 1 - i]]

\* the key sequences of the input dicts: every choice of keys among base,
\* in base order or in the opposite order
KeySeqs(base) ==
    UNION {{SelectSeq(base, LAMBDA k : k \in S),
            Reverse(SelectSeq(base, LAMBDA k : k \in S))} : S \in SUBSET Range(base)}

\* the values a dict given to autofill_missing_values may hold under a key
AutofillValues(k) ==
    IF k = "Transport Mode"
    THEN {Null, Str("Rail"), Str("Ship"), Str("Truck"), Str("Bike")}
    ELSE IF k = "End-of-Life Treatment"
    THEN {Null, Str("Incineration"), Str("Landfill"), Str("Recycling"), Str("Reuse")}
    ELSE IF k = "Transport Distance (km)"
    THEN {Null, Num(10)}
    ELSE IF k \in Range(all_kpis)
    THEN {Num(1), Num(2)}
    ELSE {Num(7)}

\* the values a dict given directly to make_prediction may hold under a key
PredictValues(k) ==
    IF k = "Transport Mode"
    THEN {Null, Str("Rail"), Str("Truck"), Str("Unknown")}
    ELSE IF k = "Transport Distance (km)"
    THEN {Num(10)}
    ELSE {Num(1)}

RECURSIVE RowsOver(_, _)
\* every assignment of values to the keys ks, values[k] being the choices for k
RowsOver(ks, values) ==
    IF ks = <<>> THEN {[c \in {} |-> Null]}
    ELSE {(Head(ks) :> v) @@ r : v \in values[Head(ks)], r \in RowsOver(Tail(ks), values)}

DictsOver(keyseqs, values) ==
    UNION {{[columns |-> ks, row |-> r] : r \in RowsOver(ks, values)} : ks \in keyseqs}

AutofillKeys ==
    <<"Transport Mode", "Transport Distance (km)", "End-of-Life Treatment",
      "Recovery Rate (%)", "Extra">>

\* the values of a dict that has as many keys as the dataset has columns
FullValues(k) ==
    IF k = "Transport Mode" THEN {Null, Str("Rail"), Str("Bike")}
    ELSE IF k = "End-of-Life Treatment" THEN {Null, Str("Reuse")}
    ELSE IF k = "Transport Distance (km)" THEN {Null, Num(10)}
    ELSE IF k = "Extra" THEN {Num(7)}
    ELSE {Num(1)}

\* the dataset's columns, one of them replaced by a key the dataset lacks
ColumnsWithExtra ==
    [i \in 1..Len(TrainingColumns) |->
        IF TrainingColumns[i] = "Environmental Impact Score" THEN "Extra"
        ELSE TrainingColumns[i]]

\* the dataset's columns, a categorical one replaced by a key the dataset lacks
ColumnsWithoutCategory ==
    [i \in 1..Len(TrainingColumns) |->
        IF TrainingColumns[i] = "End-of-Life Treatment" THEN "Extra"
        ELSE TrainingColumns[i]]

\* dicts as wide as the dataset: its columns in order, in the opposite order,
\* or with a foreign key among them
FullInputs ==
    DictsOver({TrainingColumns, Reverse(TrainingColumns), ColumnsWithExtra,
               ColumnsWithoutCategory},
              [k \in Range(TrainingColumns) \cup {"Extra"} |-> FullValues(k)])

\* arguments of autofill_missing_values
AutofillInputs ==
    DictsOver(KeySeqs(AutofillKeys), [k \in Range(AutofillKeys) |-> AutofillValues(k)])
        \cup FullInputs

PredictKeys ==
    <<"Recovery Rate (%)", "Transport Mode", "Transport Distance (km)",
      "Reuse Potential (%)">>

\* arguments of make_prediction when called on its own
PredictInputs ==
    DictsOver(KeySeqs(PredictKeys), [k \in Range(PredictKeys) |-> PredictValues(k)])

\* the values a request body may hold under a key
RequestValues(k) ==
    IF k = "Transport Mode" THEN {Null, Str("Rail"), Str("Bike")}
    ELSE IF k = "End-of-Life Treatment" THEN {Null, Str("Reuse")}
    ELSE IF k = "Transport Distance (km)" THEN {Null, Num(10), Num(0 - Scale)}
    ELSE {Null, Num(8)}

\* request bodies: any of the fields left out, in declaration order
Requests ==
    DictsOver({SelectSeq(RequestFields, LAMBDA k : k \in S) : S \in SUBSET Range(RequestFields)},
              [k \in Range(RequestFields) |-> RequestValues(k)])

PipelineKeys ==
    <<"Transport Mode", "Transport Distance (km)", "End-of-Life Treatment",
      "Recovery Rate (%)">>

\* arguments of the whole pipeline: keys of the registry, in order, any of them
\* absent, and the dicts as wide as the dataset
PipelineInputs ==
    DictsOver({SelectSeq(PipelineKeys, LAMBDA k : k \in S) : S \in SUBSET Range(PipelineKeys)},
              [k \in Range(PipelineKeys) |-> AutofillValues(k) \ {Str("Ship"), Str("Landfill"), Str("Recycling")}])
        \cup FullInputs

----------------------------------------------------------------------------
(* Startup: the module-level code of autofill.py and predict.py *)

NotLoaded == [loaded |-> FALSE, base |-> 0, dep |-> FALSE]

\* the imputers the artifact may hold
Imputers == {[loaded |-> TRUE, base |-> 6, dep |-> d] : d \in BOOLEAN}

NoEncoders == [c \in {} |-> <<>>]
NoModels == [m \in {} |-> [raises |-> FALSE]]

TypeOK ==
    /\ pc \in {"idle", "a_step1", "a_step2", "a_step3", "a_step4", "a_step5",
               "a_step6", "a_done", "p_start", "p_step1", "p_step2", "p_done",
               "r_summary", "r_build", "r_done", "responded",
               "o_key", "o_primary", "o_fallback", "g_return", "g_done"}
    /\ imputer \in Imputers \cup {NotLoaded}
    /\ encoders_on_disk \in BOOLEAN
    /\ api_key \in BOOLEAN

\* the locals of a run that has not started
IdleRun ==
    [pc |-> "idle", input_dict |-> EmptyFrame, df_user |-> EmptyFrame,
     df_imputed |-> EmptyFrame, autofill_result |-> NoResult,
     autofilled_dict |-> EmptyFrame, df_input |-> EmptyFrame,
     predictions |-> EmptyFrame, todo |-> <<>>,
     X_seen |-> [m \in {} |-> EmptyFrame], predict_result |-> NoResult]

IdleLocals ==
    /\ parked = IdleRun
    /\ http = NoRequest
    /\ gen = NoCall
    /\ report = NoReport
    /\ pc = "idle"
    /\ input_dict = EmptyFrame
    /\ df_user = EmptyFrame
    /\ df_imputed = EmptyFrame
    /\ autofill_result = NoResult
    /\ autofilled_dict = EmptyFrame
    /\ df_input = EmptyFrame
    /\ predictions = EmptyFrame
    /\ todo = <<>>
    /\ X_seen = [m \in {} |-> EmptyFrame]
    /\ predict_result = NoResult

\* autofill.py lines 35-42
AutofillStartup ==
    /\ imputer \in {NotLoaded, [loaded |-> TRUE, base |-> 6, dep |-> FALSE]}
    /\ encoders_on_disk \in BOOLEAN
    /\ label_encoders = IF encoders_on_disk THEN Vocabulary ELSE NoEncoders
    /\ df_training \in {TrainingColumns, <<>>}

Init ==
    /\ AutofillStartup
    /\ MODELS = NoModels
    /\ api_key = FALSE
    /\ IdleLocals

Next ==
    \/ \E d \in AutofillInputs : AutofillCall(d)
    \/ AutofillStep1
    \/ AutofillStep2
    \/ AutofillStep3
    \/ AutofillStep4
    \/ AutofillStep5
    \/ AutofillStep6
    \/ AutofillFinish

Spec == Init /\ [][Next]_vars

----------------------------------------------------------------------------
(* make_prediction called on its own, for every set of loaded KPI models *)

ModelConfigs ==
    {m \in UNION {[S -> {[raises |-> b] : b \in BOOLEAN}] : S \in SUBSET Range(all_kpis)} :
        Cardinality({k \in DOMAIN m : m[k].raises}) <= MaxFailing}

\* predict.py lines 43-46
InitPredict ==
    /\ imputer = NotLoaded
    /\ encoders_on_disk \in BOOLEAN
    /\ label_encoders = IF encoders_on_disk THEN Vocabulary ELSE NoEncoders
    /\ df_training = TrainingColumns
    /\ MODELS \in ModelConfigs
    /\ api_key = FALSE
    /\ IdleLocals

NextPredict ==
    \/ \E d \in PredictInputs : PredictCall(d)
    \/ PredictStart
    \/ PredictStep1
    \/ PredictStep2
    \/ PredictStep3
    \/ PredictFinish

SpecPredict == InitPredict /\ [][NextPredict]_vars

----------------------------------------------------------------------------
(* The whole pipeline: autofill_missing_values, then make_prediction *)

InitPipeline ==
    /\ imputer \in Imputers
    /\ encoders_on_disk \in BOOLEAN
    /\ label_encoders = IF encoders_on_disk THEN Vocabulary ELSE NoEncoders
    /\ df_training \in {TrainingColumns, <<>>}
    /\ MODELS \in {m \in ModelConfigs :
                      Cardinality(DOMAIN m) >= Len(all_kpis) - 1 /\ \A k \in DOMAIN m : ~m[k].raises}
                 \cup {NoModels}
    /\ api_key = FALSE
    /\ IdleLocals

NextPipeline ==
    \/ \E d \in PipelineInputs : AutofillCall(d)
    \/ AutofillStep1
    \/ AutofillStep2
    \/ AutofillStep3
    \/ AutofillStep4
    \/ AutofillStep5
    \/ AutofillStep6
    \/ ExportPredict
    \/ PredictStart
    \/ PredictStep1
    \/ PredictStep2
    \/ PredictStep3
    \/ ExportReturn

SpecPipeline == InitPipeline /\ [][NextPipeline]_vars

----------------------------------------------------------------------------
(* The decode step on whatever codes an imputer may produce *)

Codes == (0 - MaxCode * Scale)..(MaxCode * Scale)

\* the columns step 5 decodes
DecodedColumns(df) ==
    {c \in Range(categorical_cols) : c \in DOMAIN label_encoders /\ c \in Range(df.columns)}

\* Step 4 with an imputer whose estimates for the categorical columns are
\* any finite codes
AutofillStep4Arbitrary ==
    /\ pc = "a_step4"
    /\ imputer.loaded
    /\ LET r == ImputerTransform(imputer, df_user) IN
       IF r.ok
       THEN /\ \E codes \in [DecodedColumns(df_user) -> Codes] :
                 df_imputed' = [r.df EXCEPT !.row =
                                  [c \in DOMAIN r.df.row |->
                                      IF c \in DOMAIN codes THEN Num(codes[c]) ELSE r.df.row[c]]]
            /\ pc' = "a_step5"
            /\ UNCHANGED autofill_result
       ELSE /\ AutofillRaise(r.msg)
            /\ UNCHANGED df_imputed
    /\ UNCHANGED <<startup, elsewhere, input_dict, df_user, predict_locals>>

InitDecode ==
    /\ imputer \in Imputers
    /\ encoders_on_disk = TRUE
    /\ label_encoders = Vocabulary
    /\ df_training = TrainingColumns
    /\ MODELS = NoModels
    /\ api_key = FALSE
    /\ IdleLocals

NextDecode ==
    \/ AutofillCall(EmptyFrame)
    \/ AutofillStep1
    \/ AutofillStep2
    \/ AutofillStep3
    \/ AutofillStep4Arbitrary
    \/ AutofillStep5
    \/ AutofillStep6
    \/ AutofillFinish

SpecDecode == InitDecode /\ [][NextDecode]_vars

----------------------------------------------------------------------------
(* Both functions called on their own, with every artifact present *)

InitCodec ==
    /\ imputer = [loaded |-> TRUE, base |-> 6, dep |-> FALSE]
    /\ encoders_on_disk = TRUE
    /\ label_encoders = Vocabulary
    /\ df_training \in {TrainingColumns, <<>>}
    /\ MODELS = [m \in Range(all_kpis) |-> [raises |-> FALSE]]
    /\ api_key = FALSE
    /\ IdleLocals

NextCodec ==
    \/ \E d \in AutofillInputs : AutofillCall(d)
    \/ AutofillStep1
    \/ AutofillStep2
    \/ AutofillStep3
    \/ AutofillStep4
    \/ AutofillStep5
    \/ AutofillStep6
    \/ AutofillFinish
    \/ \E d \in PredictInputs : PredictCall(d)
    \/ PredictStart
    \/ PredictStep1
    \/ PredictStep2
    \/ PredictStep3
    \/ PredictFinish

SpecCodec == InitCodec /\ [][NextCodec]_vars

----------------------------------------------------------------------------
(* Two pipeline runs interleaved step by step *)

ConcurrentInputs ==
    {d \in PipelineInputs :
        d.columns \in {<<"Transport Mode">>, <<"Recovery Rate (%)">>}}

ConcurrentKpis == {"Recycled Content (%)", "Recovery Rate (%)"}

InitConcurrent ==
    /\ imputer \in Imputers
    /\ encoders_on_disk = TRUE
    /\ label_encoders = Vocabulary
    /\ df_training = TrainingColumns
    /\ MODELS \in {m \in ModelConfigs : DOMAIN m = ConcurrentKpis}
    /\ api_key = FALSE
    /\ IdleLocals

NextConcurrent ==
    \/ \E d \in ConcurrentInputs : AutofillCall(d)
    \/ AutofillStep1
    \/ AutofillStep2
    \/ AutofillStep3
    \/ AutofillStep4
    \/ AutofillStep5
    \/ AutofillStep6
    \/ ExportPredict
    \/ PredictStart
    \/ PredictStep1
    \/ PredictStep2
    \/ PredictStep3
    \/ ExportReturn
    \/ Switch

SpecConcurrent == InitConcurrent /\ [][NextConcurrent]_vars

----------------------------------------------------------------------------
(* Pipeline runs while the encoder artifact changes on disk *)

InitReload ==
    /\ imputer \in Imputers
    /\ encoders_on_disk \in BOOLEAN
    /\ label_encoders = IF encoders_on_disk THEN Vocabulary ELSE NoEncoders
    /\ df_training = TrainingColumns
    /\ MODELS \in {m \in ModelConfigs : DOMAIN m = ConcurrentKpis}
    /\ api_key = FALSE
    /\ IdleLocals

NextReload ==
    \/ \E d \in ConcurrentInputs : AutofillCall(d)
    \/ AutofillStep1
    \/ AutofillStep2
    \/ AutofillStep3
    \/ AutofillStep4
    \/ AutofillStep5
    \/ AutofillStep6
    \/ ExportPredict
    \/ PredictStart
    \/ PredictStep1
    \/ PredictStep2
    \/ PredictStep3
    \/ ExportReturn
    \/ ArtifactChange

SpecReload == InitReload /\ [][NextReload]_vars

----------------------------------------------------------------------------
(* Requests to export_report *)

InitExport ==
    /\ imputer \in Imputers \cup {NotLoaded}
    /\ encoders_on_disk = TRUE
    /\ label_encoders = Vocabulary
    /\ df_training = TrainingColumns
    /\ MODELS \in {m \in ModelConfigs : DOMAIN m = ConcurrentKpis} \cup {NoModels}
    /\ api_key \in BOOLEAN
    /\ IdleLocals

NextExport ==
    \/ \E b \in Requests : ExportRequest(b)
    \/ AutofillStep1
    \/ AutofillStep2
    \/ AutofillStep3
    \/ AutofillStep4
    \/ AutofillStep5
    \/ AutofillStep6
    \/ ExportPredict
    \/ PredictStart
    \/ PredictStep1
    \/ PredictStep2
    \/ PredictStep3
    \/ ExportReport
    \/ CallOpenrouterKey
    \/ \E c \in Completions : TryPrimary(c)
    \/ \E c \in Completions : TryFallback(c)
    \/ GenerateReturn
    \/ ReportSummary
    \/ ReportCircularity
    \/ \E written \in BOOLEAN : ReportBuild(written)
    \/ ExportRespond
    \/ ExportClose

SpecExport == InitExport /\ [][NextExport]_vars

----------------------------------------------------------------------------
(* Calls of the text generation functions on their own *)

\* a string argument, a numeric argument: a proper value, or None
ArgumentValues(a) ==
    IF a \in {"material", "process_stage", "technology"}
    THEN {Null, Str("Copper Ore")}
    ELSE {Null, Num(50 * Scale)}

Arguments(fn) ==
    {args \in [Range(Parameters[fn]) -> {Null, Str("Copper Ore"), Num(50 * Scale)}] :
        \A a \in Range(Parameters[fn]) : args[a] \in ArgumentValues(a)}

InitRag ==
    /\ imputer = NotLoaded
    /\ encoders_on_disk = FALSE
    /\ label_encoders = NoEncoders
    /\ df_training = <<>>
    /\ MODELS = NoModels
    /\ api_key \in BOOLEAN
    /\ IdleLocals

NextRag ==
    \/ \E fn \in DOMAIN Parameters : \E args \in Arguments(fn) : GenerateCall(fn, args)
    \/ CallOpenrouterKey
    \/ \E c \in Completions : TryPrimary(c)
    \/ \E c \in Completions : TryFallback(c)
    \/ GenerateReturn
    \/ GenerateFinish

SpecRag == InitRag /\ [][NextRag]_vars

----------------------------------------------------------------------------
(* Both stages on whatever codes an imputer may produce *)

InitStages ==
    /\ imputer \in Imputers
    /\ encoders_on_disk = TRUE
    /\ label_encoders = Vocabulary
    /\ df_training = TrainingColumns
    /\ MODELS \in {m \in ModelConfigs : DOMAIN m = ConcurrentKpis}
    /\ api_key = FALSE
    /\ IdleLocals

NextStages ==
    \/ AutofillCall(EmptyFrame)
    \/ AutofillStep1
    \/ AutofillStep2
    \/ AutofillStep3
    \/ AutofillStep4Arbitrary
    \/ AutofillStep5
    \/ AutofillStep6
    \/ ExportPredict
    \/ PredictStart
    \/ PredictStep1
    \/ PredictStep2
    \/ PredictStep3
    \/ ExportReturn

SpecStages == InitStages /\ [][NextStages]_vars

----------------------------------------------------------------------------
(* The two functions as operators on their argument, composed of the same  *)
(* steps as the actions                                                     *)

\* autofill_missing_values(d)
AutofillOutcome(d) ==
    LET encoded == EncodeFrame(Align(DataFrame(d))) IN
    IF ~imputer.loaded THEN Err("autofill", "No imputer found")
    ELSE LET r == ImputerTransform(imputer, encoded) IN
         IF ~r.ok THEN Err("autofill", r.msg)
         ELSE LET dec == DecodeFrame(r.df, categorical_cols) IN
              IF dec.ok THEN Ok(ToDict(dec.df)) ELSE Err("autofill", dec.msg)

RECURSIVE PredictLoop(_, _, _)
\* the loop of step 2 of make_prediction over the metrics ms
PredictLoop(ms, df, acc) ==
    IF ms = <<>> THEN acc
    ELSE PredictLoop(Tail(ms), df, DictSet(acc, Head(ms), PredictOne(Head(ms), df)))

\* the predictions dict make_prediction(d) builds
PredictionsOf(d) ==
    PredictLoop(LoadedMetrics,
                IF encoders_on_disk THEN PredictEncodeFrame(DataFrame(d), LoadEncoders)
                ELSE DataFrame(d),
                EmptyFrame)

\* make_prediction(d)
PredictOutcome(d) ==
    IF DOMAIN MODELS = {} THEN Err("predict", "No prediction models found")
    ELSE Ok(Merge(d, PredictionsOf(d)))

----------------------------------------------------------------------------
(* Claims *)

KpiNames == Range(all_kpis)

\* the inputs that agree with d on every non-KPI field and on the key order
KpiVariants(d) ==
    {e \in PipelineInputs :
        /\ e.columns = d.columns
        /\ \A k \in Range(d.columns) \ KpiNames : e.row[k] = d.row[k]}

\* C1: two pipeline runs whose inputs differ only in the values of KPI
\* fields yield the same predicted value for every KPI.
C1_KpiNonInterference ==
    (pc = "p_done" /\ predict_result.kind = "ok") =>
        \A e \in KpiVariants(input_dict) :
            LET a == AutofillOutcome(e) IN
            a.kind = "ok" /\ PredictionsOf(a.value) = predictions

\* C2: the features handed to every loaded predictor hold none of the five
\* KPI column names, whichever models are loaded and whichever KPI keys the
\* input dict has.
C2_FeaturesExcludeKpis ==
    \A m \in DOMAIN X_seen : Range(X_seen[m].columns) \cap KpiNames = {}

C2_Witness ==
    /\ pc = "p_done"
    /\ Cardinality(DOMAIN X_seen) >= 2
    /\ "Recovery Rate (%)" \in DOMAIN X_seen
    /\ "Recovery Rate (%)" \in Range(autofilled_dict.columns)
    /\ "Reuse Potential (%)" \in Range(autofilled_dict.columns)
    /\ "Reuse Potential (%)" \notin DOMAIN MODELS

\* the rounded code step 5 computes for column c
RoundedCode(df, c) == Round(df.row[c].n)

InVocabularyRange(c, x) == 0 <= x /\ x < Len(label_encoders[c])

\* C3: in the decode step, a code whose rounded value lies outside
\* [0, len(vocabulary)), negative values included, is decoded to "Unknown".
C3_DecodeSentinel ==
    [][pc = "a_step5" =>
        \A c \in DecodedColumns(df_imputed) :
            ~InVocabularyRange(c, RoundedCode(df_imputed, c)) =>
                (pc' = "a_step6" /\ df_imputed'.row[c] = Str("Unknown"))]_vars

\* C4: the decode step returns a label for every finite code the imputer
\* produces and does not raise.
C4_DecodeNeverFails ==
    [][(pc = "a_step5" /\ DOMAIN label_encoders \subseteq Range(df_imputed.columns)) =>
        (pc' = "a_step6" /\ \A c \in DOMAIN label_encoders : df_imputed'.row[c].t = "str")]_vars

\* the categorical fields of the input dict that autofill encodes and decodes
CodecFields(d) ==
    {c \in Range(d.columns) : c \in DOMAIN label_encoders /\ c \in Range(categorical_cols)
                              /\ (df_training # <<>> => c \in Range(df_training))}

\* C5: a label of a field's vocabulary, encoded in step 3 and decoded in
\* step 5, comes back as the same label.
C5_CodecRoundTrip ==
    (pc = "a_done" /\ autofill_result.kind = "ok") =>
        \A c \in CodecFields(input_dict) :
            (input_dict.row[c].t = "str" /\ input_dict.row[c].s \in Range(Vocabulary[c]))
                => autofill_result.value.row[c] = input_dict.row[c]

C5_Witness ==
    /\ pc = "a_done"
    /\ autofill_result.kind = "ok"
    /\ "Transport Mode" \in CodecFields(input_dict)
    /\ input_dict.row["Transport Mode"] = Str("Ship")
    /\ autofill_result.value.row["Transport Mode"] = Str("Ship")
    /\ "End-of-Life Treatment" \in CodecFields(input_dict)
    /\ input_dict.row["End-of-Life Treatment"] = Str("Incineration")

\* the code the encode step is to give value x under the vocabulary le
ExpectedCode(le, x) ==
    IF x.t = "str" /\ x.s \in Range(le)
    THEN Int2Num((CHOOSE i \in 1..Len(le) : le[i] = x.s) - 1)
    ELSE Int2Num(-1)

\* C6: in both functions the encode step never raises; it gives a null or a
\* label outside the vocabulary the code -1 and a vocabulary label its index.
C6_EncodeNeverFails ==
    [][/\ pc = "a_step3" =>
            /\ pc' = "a_step4"
            /\ \A c \in DecodedColumns(df_user) :
                  df_user'.row[c] = ExpectedCode(label_encoders[c], df_user.row[c])
       /\ (pc = "p_step1" /\ encoders_on_disk) =>
            /\ pc' = "p_step2"
            /\ \A c \in DOMAIN Vocabulary \cap Range(df_input.columns) :
                  df_input'.row[c] = ExpectedCode(Vocabulary[c], df_input.row[c])]_vars

C6_Witness ==
    /\ pc = "a_step4"
    /\ "Transport Mode" \in Range(input_dict.columns)
    /\ input_dict.row["Transport Mode"] = Str("Bike")
    /\ df_user.row["Transport Mode"] = Int2Num(-1)
    /\ "End-of-Life Treatment" \in Range(input_dict.columns)
    /\ input_dict.row["End-of-Life Treatment"] = Null
    /\ df_user.row["End-of-Life Treatment"] = Int2Num(-1)

\* C7: the record handed to the encode and impute steps has exactly the
\* registry's fields in registry order, extra keys dropped and absent fields
\* null, in every startup configuration.
C7_AlignmentInvariant ==
    /\ pc \in {"a_step3", "a_step4"} => df_user.columns = TrainingColumns
    /\ pc = "a_step3" =>
          df_user.row = [c \in Range(TrainingColumns) |->
                            IF c \in Range(input_dict.columns) THEN input_dict.row[c] ELSE Null]

\* C8: aligning a record that is already aligned leaves its fields, their
\* order and their values as they are.
C8_AlignmentIdempotent ==
    /\ (pc = "a_step3" /\ input_dict.columns = TrainingColumns) => df_user = DataFrame(input_dict)
    /\ (pc = "a_step3" /\ df_user.columns = TrainingColumns) => Align(df_user) = df_user

C8_Witness ==
    /\ pc = "a_step3"
    /\ df_training # <<>>
    /\ input_dict.columns = TrainingColumns
    /\ input_dict.row["Transport Mode"] = Str("Rail")
    /\ input_dict.row["Transport Distance (km)"] = Num(10)
    /\ df_user = DataFrame(input_dict)

\* C9: with no imputer loaded every call of autofill_missing_values fails
\* with the error that names the missing imputer, and returns no record.
C9_FatalImputerAbsence ==
    ~imputer.loaded =>
        /\ pc \notin {"a_step5", "a_step6"}
        /\ pc = "a_done" => autofill_result = Err("autofill", "No imputer found")

C9_Witness ==
    /\ ~imputer.loaded
    /\ pc = "a_done"
    /\ autofill_result = Err("autofill", "No imputer found")
    /\ input_dict.columns # <<>>

\* the loaded predictor for metric m raises on the features of this call
Fails(m) == ModelPredict(MODELS[m], m, Drop(df_input, all_kpis)).t = "raise"

\* C10: when a loaded predictor raises, make_prediction still returns; the
\* result holds None for that KPI, every other loaded predictor was invoked,
\* and each holds the value its model gives for the features.
C10_FailureIsolation ==
    (pc = "p_done" /\ \E m \in DOMAIN MODELS : Fails(m)) =>
        /\ predict_result.kind = "ok"
        /\ \A m \in DOMAIN MODELS :
              /\ m \in DOMAIN X_seen
              /\ predict_result.value.row[m] =
                    IF Fails(m) THEN Null
                    ELSE ModelPredict([raises |-> FALSE], m, Drop(df_input, all_kpis))

C10_Witness ==
    /\ pc = "p_done"
    /\ predict_result.kind = "ok"
    /\ \E m1, m2 \in DOMAIN MODELS :
          /\ KpiIndex(m1) < KpiIndex(m2)
          /\ MODELS[m1].raises
          /\ predict_result.value.row[m1] = Null
          /\ ~MODELS[m2].raises
          /\ predict_result.value.row[m2].t = "num"

\* the KPIs whose model artifact was absent at startup
AbsentKpis == KpiNames \ DOMAIN MODELS

\* C11: when exactly one of the five KPI artifacts was absent at startup, the
\* pipeline returns a result that holds the predicted values of the four
\* other KPIs and, under the absent KPI's name, a null entry, not a number
\* carried over from the input or produced by the imputer.
C11_AbsentArtifactIsolation ==
    (pc = "p_done" /\ Cardinality(AbsentKpis) = 1) =>
        /\ predict_result.kind = "ok"
        /\ \A m \in DOMAIN MODELS :
              /\ m \in Range(predict_result.value.columns)
              /\ predict_result.value.row[m] = predictions.row[m]
              /\ predictions.row[m].t = "num"
        /\ \A k \in AbsentKpis :
              /\ k \in Range(predict_result.value.columns)
              /\ predict_result.value.row[k] = Null

\* C12 as stated: for every set of absent KPI artifacts, all five included,
\* make_prediction returns a result and does not raise.
C12_NeverRaises ==
    pc = "p_done" => predict_result.kind = "ok"

\* C12: for every set of absent KPI artifacts that leaves a model loaded,
\* make_prediction returns a result holding a prediction for exactly the
\* loaded KPIs; with all five absent it raises "No prediction models found".
C12_AbsenceDisablesOnlyThoseKpis ==
    pc = "p_done" =>
        IF DOMAIN MODELS = {}
        THEN predict_result = Err("predict", "No prediction models found")
        ELSE /\ predict_result.kind = "ok"
             /\ DOMAIN predictions.row = DOMAIN MODELS
             /\ DOMAIN MODELS \subseteq Range(predict_result.value.columns)

C12_Witness ==
    /\ pc = "p_done"
    /\ Cardinality(AbsentKpis) = Len(all_kpis) - 1
    /\ predict_result.kind = "ok"
    /\ autofilled_dict.columns # <<>>

\* the registry: the columns of the reference dataset
RegistryFields == Range(TrainingColumns)

\* C13: the keys of the record a successful pipeline run returns are exactly
\* the registry's fields united with the five KPI names, whichever KPI
\* models are loaded.
C13_ResultFieldSet ==
    (pc = "p_done" /\ predict_result.kind = "ok") =>
        Range(predict_result.value.columns) = RegistryFields \cup KpiNames

\* C14 as stated: in the record make_prediction returns, every KPI key comes
\* after every non-KPI key, for every input dict.
C14_KpiFieldsLast ==
    (pc = "p_done" /\ predict_result.kind = "ok") =>
        LET cols == predict_result.value.columns IN
        \A i, j \in 1..Len(cols) :
            (cols[i] \in KpiNames /\ cols[j] \notin KpiNames) => j < i

\* C14: the record make_prediction returns has the input dict's keys in the
\* input's order, a KPI key among them keeping its position, followed by the
\* loaded KPIs the input lacks, in MODEL_PATHS order.
C14_NewKpiKeysAppended ==
    (pc = "p_done" /\ predict_result.kind = "ok") =>
        predict_result.value.columns =
            autofilled_dict.columns \o
                SelectSeq(LoadedMetrics, LAMBDA m : m \notin Range(autofilled_dict.columns))

C14_Witness ==
    /\ pc = "p_done"
    /\ predict_result.kind = "ok"
    /\ Len(autofilled_dict.columns) >= 2
    /\ autofilled_dict.columns[1] = "Recovery Rate (%)"
    /\ autofilled_dict.columns[2] = "Transport Mode"
    /\ "Recovery Rate (%)" \in DOMAIN MODELS
    /\ "Recycled Content (%)" \in DOMAIN MODELS

\* the step of autofill_missing_values that raised, read off the locals of a
\* failed call: df_imputed is assigned only once imputation has succeeded
FailedStep == IF df_imputed = EmptyFrame THEN "imputation" ELSE "decoding"

\* str(e) of the exception that step raised
OriginalMessage ==
    IF df_imputed = EmptyFrame
    THEN IF imputer.loaded THEN ImputerTransform(imputer, df_user).msg
         ELSE "No imputer found"
    ELSE DecodeFrame(df_imputed, categorical_cols).msg

AutofillFailed == pc = "a_done" /\ autofill_result.kind = "error"

EncodedInput ==
    IF encoders_on_disk THEN PredictEncodeFrame(DataFrame(autofilled_dict), LoadEncoders)
    ELSE DataFrame(autofilled_dict)

\* what the predictor of m stores when it is the only one invoked
SoloValue(m) ==
    LET y == ModelPredict(MODELS[m], m, Drop(EncodedInput, all_kpis)) IN
    IF y.t = "raise" THEN Null ELSE y

\* C16: at every point of the loop of make_prediction, the value stored for a
\* KPI is the one its own model gives for the encoded input without the KPI
\* columns: it depends neither on the position of the predictor in the
\* loop, nor on which other predictors are loaded, nor on what the
\* predictors before it returned or raised.
C16_PredictorIndependence ==
    pc \in {"p_step2", "p_done"} =>
        \A m \in DOMAIN predictions.row :
            /\ X_seen[m] = Drop(EncodedInput, all_kpis)
            /\ predictions.row[m] = SoloValue(m)

C16_Witness ==
    /\ pc = "p_step2"
    /\ todo # <<>>
    /\ Len(predictions.columns) >= 2
    /\ predictions.row[predictions.columns[1]] = Null
    /\ predictions.row[predictions.columns[2]].t = "num"

\* the module-level objects of autofill.py and predict.py
process_wide == <<imputer, label_encoders, df_training, MODELS>>

\* what a run holds at the end of each function is what the function gives
\* for the run's own argument
ReturnsAsAlone(run) ==
    /\ run.pc = "a_done" => run.autofill_result = AutofillOutcome(run.input_dict)
    /\ run.pc = "p_done" =>
          /\ run.autofilled_dict = AutofillOutcome(run.input_dict).value
          /\ run.predict_result = PredictOutcome(run.autofilled_dict)

\* C17: no step of a pipeline run writes the module-level state, and under
\* every interleaving of two runs, after any history of earlier runs, each
\* run returns what it returns when executed alone on the same input.
C17_StatelessUnderConcurrency ==
    /\ [](ReturnsAsAlone(CurrentRun) /\ ReturnsAsAlone(parked))
    /\ [][process_wide' = process_wide]_vars

C17_Witness ==
    /\ pc = "p_done"
    /\ predict_result.kind = "ok"
    /\ parked.pc = "a_step4"
    /\ parked.df_user # df_user
    /\ parked.input_dict.columns = input_dict.columns

\* C18: make_prediction loads nothing: the encoders it applies to its
\* argument are the ones loaded at startup, which autofill_missing_values
\* uses, even when the encoder artifact on disk has changed since startup.
C18_LoadOnce ==
    pc \in {"p_step2", "p_done"} =>
        df_input = PredictEncodeFrame(DataFrame(autofilled_dict), label_encoders)

\* neither the reference dataset nor the encoders were available at startup
SchemaUnavailable == df_training = <<>> /\ DOMAIN label_encoders = {}

\* C19: when neither the reference dataset nor the encoders were available
\* at startup, autofill_missing_values does not take the imputer's output
\* for the unaligned, unencoded record and return it as a normal result:
\* the call ends in an error.
C19_SchemaUnavailableNotSilent ==
    SchemaUnavailable =>
        /\ pc \notin {"a_step5", "a_step6"}
        /\ pc = "a_done" => autofill_result.kind = "error"

\* the fields a request body leaves out or holds as null
MissingFields(body) ==
    {f \in Range(RequestFields) : f \notin Range(body.columns) \/ body.row[f] = Null}

\* every value the body holds is one its field accepts
PresentValuesValid(body) ==
    \A f \in Range(RequestFields) \ MissingFields(body) : FieldAccepts(f, body.row[f])

\* the record autofill_missing_values is called on holds the body's values
\* and null for the fields in missing
PassedWithNull(body, missing) ==
    /\ Range(input_dict.columns) = Range(RequestFields)
    /\ \A f \in Range(RequestFields) :
          input_dict.row[f] = IF f \in missing THEN Null ELSE body.row[f]

\* C20 as stated: a request in which any single field is absent or null,
\* every present value being valid, is accepted and passed to
\* autofill_missing_values with that field null.
C20_AnyFieldMayBeNull ==
    (/\ http.status # "none"
     /\ PresentValuesValid(http.body)
     /\ Cardinality(MissingFields(http.body)) = 1) =>
        /\ http.status = "accepted"
        /\ PassedWithNull(http.body, MissingFields(http.body))

\* C20: a request whose present values are valid is accepted, and passed to
\* autofill_missing_values with the left-out fields null, exactly when the
\* fields it leaves out or holds as null are among the Optional ones; with a
\* required field absent or null it is rejected and nothing is called.
C20_OptionalFieldMayBeNull ==
    (http.status # "none" /\ PresentValuesValid(http.body)) =>
        IF MissingFields(http.body) \cap RequiredFields = {}
        THEN /\ http.status = "accepted"
             /\ pc # "idle"
             /\ PassedWithNull(http.body, MissingFields(http.body))
        ELSE /\ http.status = "422"
             /\ pc = "idle"

C20_Witness ==
    /\ http.status = "accepted"
    /\ pc = "a_step1"
    /\ MissingFields(http.body) = {"Environmental Impact Score"}
    /\ "Environmental Impact Score" \notin Range(http.body.columns)
    /\ input_dict.row["Environmental Impact Score"] = Null

\* the request holds no value for field f
MissingIn(d, f) == f \notin Range(d.columns) \/ d.row[f] = Null

\* every categorical field of the registry other than f holds one of its labels
OthersValid(d, f) ==
    \A c \in DOMAIN Vocabulary \ {f} :
        /\ c \in Range(d.columns)
        /\ d.row[c].t = "str"
        /\ d.row[c].s \in Range(Vocabulary[c])

\* C21: a pipeline run on an input whose "Transport Mode" is null, the
\* other categorical fields holding labels of their vocabularies, returns a
\* record in which "Transport Mode" is a label of that field's vocabulary,
\* neither null nor "Unknown", and which has an entry for each of the five
\* KPI names, a number or None.
C21_NullCategoricalFilled ==
    (/\ pc = "p_done"
     /\ predict_result.kind = "ok"
     /\ MissingIn(input_dict, "Transport Mode")
     /\ OthersValid(input_dict, "Transport Mode")) =>
        LET out == predict_result.value IN
        /\ "Transport Mode" \in Range(out.columns)
        /\ out.row["Transport Mode"].t = "str"
        /\ out.row["Transport Mode"].s \in Range(Vocabulary["Transport Mode"])
        /\ \A k \in KpiNames :
              /\ k \in Range(out.columns)
              /\ out.row[k].t = "num" \/ out.row[k] = Null

C21_Witness ==
    /\ pc = "p_done"
    /\ predict_result.kind = "ok"
    /\ "Transport Mode" \in Range(input_dict.columns)
    /\ input_dict.row["Transport Mode"] = Null
    /\ "End-of-Life Treatment" \in Range(input_dict.columns)
    /\ input_dict.row["End-of-Life Treatment"] = Str("Reuse")
    /\ predict_result.value.row["Transport Mode"] = Str("Truck")
    /\ df_training # <<>>

\* the code make_prediction hands to the predictors for a field is the
\* position of the label autofill_missing_values emitted, -1 for "Unknown"
ReencodedLabel(c) ==
    LET label == autofilled_dict.row[c]
        code == df_input.row[c]
    IN  IF label = Str("Unknown") THEN code = Int2Num(-1)
        ELSE /\ code.t = "num"
             /\ code.n % Scale = 0
             /\ 0 <= code.n \div Scale
             /\ code.n \div Scale < Len(label_encoders[c])
             /\ Str(label_encoders[c][code.n \div Scale + 1]) = label

\* the decode step emits, for a rounded code in range, the label at that
\* position of the vocabulary
DecodesInRange ==
    (pc = "a_step5" /\ pc' = "a_step6") =>
        \A c \in DecodedColumns(df_imputed) :
            LET x == RoundedCode(df_imputed, c) IN
            InVocabularyRange(c, x) =>
                df_imputed'.row[c] = Str(label_encoders[c][x + 1])

\* C22: for every categorical field and every rounded imputer code c in
\* [0, len(vocabulary)), the label autofill_missing_values emits for c is
\* re-encoded by make_prediction to c, and a field decoded to "Unknown" is
\* re-encoded to -1.
C22_StagesAgreeOnCodes ==
    /\ [][DecodesInRange]_vars
    /\ [](pc \in {"p_step2", "p_done"} =>
            \A c \in DOMAIN label_encoders : ReencodedLabel(c))

C22_Witness ==
    /\ pc = "p_done"
    /\ predict_result.kind = "ok"
    /\ autofilled_dict.row["Transport Mode"] = Str("Ship")
    /\ df_input.row["Transport Mode"] = Int2Num(1)
    /\ autofilled_dict.row["End-of-Life Treatment"] = Str("Unknown")
    /\ df_input.row["End-of-Life Treatment"] = Int2Num(-1)

Abs(i) == IF i >= 0 THEN i ELSE 0 - i

\* C23: the decode step first rounds the imputer's fractional code to a
\* nearest integer x; for 0 <= x < len(vocabulary) the label is the
\* vocabulary entry at index x, for x >= len(vocabulary) it is "Unknown".
C23_DecodeRoundsFirst ==
    [][(pc = "a_step5" /\ pc' = "a_step6") =>
        \A c \in DecodedColumns(df_imputed) :
            LET x == RoundedCode(df_imputed, c) IN
            /\ 2 * Abs(df_imputed.row[c].n - x * Scale) <= Scale
            /\ (0 <= x /\ x < Len(label_encoders[c])) =>
                  df_imputed'.row[c] = Str(label_encoders[c][x + 1])
            /\ x >= Len(label_encoders[c]) => df_imputed'.row[c] = Str("Unknown")]_vars

\* the decode step has run on a code rounded up past the last index and on
\* one rounded down to it
C23_Witness ==
    /\ pc = "a_step6"
    /\ df_imputed.row["Transport Mode"] = Str("Unknown")
    /\ df_imputed.row["End-of-Life Treatment"] = Str("Reuse")

----------------------------------------------------------------------------
(* The stages of export_report *)

AutofillStage == {"a_step1", "a_step2", "a_step3", "a_step4", "a_step5", "a_step6", "a_done"}
PredictStage == {"p_start", "p_step1", "p_step2", "p_done"}

\* the response of a request that has ended is this error
Answers500(error) == http.response = [status_code |-> 500, content |-> error]

(* C24: export_report runs autofill, then predict on autofill's result,    *)
(* then the report on predict's result.  While a stage runs no later stage *)
(* has been invoked.  When a stage raised, no later stage is invoked, the  *)
(* response is a 500 whose detail is that stage's error, and a 200 with    *)
(* the PDF is returned only when all three stages returned.                *)
C24_StageOrdering ==
    /\ pc \in AutofillStage => predict_result = NoResult /\ report = NoReport
    /\ pc \in PredictStage => /\ autofill_result.kind = "ok"
                              /\ autofilled_dict = autofill_result.value
                              /\ report = NoReport
    /\ report # NoReport => /\ autofill_result.kind = "ok"
                            /\ predict_result.kind = "ok"
                            /\ autofilled_dict = autofill_result.value
                            /\ report.data = predict_result.value
    /\ pc = "responded" =>
        /\ autofill_result.kind = "error" =>
              /\ predict_result = NoResult
              /\ report = NoReport
              /\ Answers500(autofill_result)
        /\ predict_result.kind = "error" =>
              /\ report = NoReport
              /\ Answers500(predict_result)
        /\ report.result.kind = "error" => Answers500(report.result)
        /\ http.response.status_code = 200 =>
              /\ autofill_result.kind = "ok"
              /\ predict_result.kind = "ok"
              /\ report.result = Ok(report_path)
              /\ http.response.content = report_path
        /\ http.response.status_code \in {200, 500}

\* a request ended with a 500 because make_prediction raised
C24_Witness ==
    /\ pc = "responded"
    /\ autofill_result.kind = "ok"
    /\ predict_result.kind = "error"
    /\ report = NoReport
    /\ http.response.status_code = 500

----------------------------------------------------------------------------
(* The report on a record with missing KPIs *)

\* the KPIs a record holds None for
NoneKpis(d) == {k \in KpiNames \cap Range(d.columns) : d.row[k] = Null}

(* C25: when the record handed to generate_report_from_dict by             *)
(* export_report holds None for a KPI, neither text generation call        *)
(* raises, both sections get a non-empty text (the model's or the static   *)
(* one), and the function returns the output path; the only way it can     *)
(* still fail is the file system refusing the PDF in doc.build.            *)
C25_MissingKpiKeepsReport ==
    (report # NoReport /\ NoneKpis(report.data) # {}) =>
        /\ gen.result.kind # "error"
        /\ pc = "r_build" =>
              /\ report.exec_summary \in {Str("model text"), Str("static text")}
              /\ report.circ_analysis \in {Str("model text"), Str("static text")}
        /\ pc \in {"r_done", "responded"} =>
              \/ report.result = Ok(report_path)
              \/ report.result = Err("report", "OSError")

\* a report on a record without its recovery rate was written, one section
\* with the static text and one with the model's
C25_Witness ==
    /\ pc = "r_done"
    /\ report.result = Ok(report_path)
    /\ "Recovery Rate (%)" \in NoneKpis(report.data)
    /\ report.exec_summary = Str("static text")
    /\ report.circ_analysis = Str("model text")

----------------------------------------------------------------------------
(* The models _call_openrouter contacts *)

\* _call_openrouter has returned
Returned == pc \in {"g_return", "g_done"}

\* the models contacted so far, in order
Contacted == [i \in 1..Len(gen.calls) |-> gen.calls[i][1]]

(* C26: without an API key _call_openrouter contacts no model and returns  *)
(* "".  With a key it contacts the primary model first, the fallback model *)
(* only after the primary raised, each at most once, and it returns the    *)
(* text of the model that answered, or "" when both raised; what it        *)
(* returns is always a string.                                             *)
C26_CallSequence ==
    /\ Contacted \in {<<>>, <<PRIMARY_MODEL>>, <<PRIMARY_MODEL, FALLBACK_MODEL>>}
    /\ ~api_key => Contacted = <<>>
    /\ Len(gen.calls) = 2 => gen.calls[1][2].t = "raise"
    /\ Returned =>
          /\ gen.text.t = "str"
          /\ ~api_key => gen.text = Str("")
          /\ api_key =>
                /\ gen.calls # <<>>
                /\ gen.calls[1][2].t = "raise" => Len(gen.calls) = 2
                /\ LET last == gen.calls[Len(gen.calls)][2] IN
                   gen.text = IF last.t = "raise" THEN Str("") ELSE last

\* both models were contacted, both raised, and "" was returned
C26_Witness ==
    /\ pc = "g_return"
    /\ Len(gen.calls) = 2
    /\ gen.calls[1][2].t = "raise"
    /\ gen.calls[2][2].t = "raise"
    /\ gen.text = Str("")

----------------------------------------------------------------------------
(* What a generate_* function hands back *)

(* C27: every public generate_* function returns, for every argument       *)
(* record, a non-empty string and raises nothing: the model's text when    *)
(* _call_openrouter returned one, the static text of the section otherwise. *)
C27_AlwaysFallsBack ==
    pc = "g_done" =>
        /\ gen.result.kind = "ok"
        /\ gen.result.value = IF gen.text # Str("") THEN gen.text
                              ELSE Str("static text")

----------------------------------------------------------------------------
(* Input values against predicted values in the merged record *)

(* C28: in the record make_prediction returns, the value under every KPI   *)
(* whose model is loaded is what that model gave for this call (None if it *)
(* raised), whatever the input held under that key; every other key of the *)
(* input holds the input's value, and there are no further keys.           *)
C28_MergePrecedence ==
    (pc = "p_done" /\ predict_result.kind = "ok") =>
        LET out == predict_result.value IN
        /\ Range(out.columns) = Range(autofilled_dict.columns) \cup DOMAIN MODELS
        /\ \A m \in DOMAIN MODELS :
              /\ out.row[m] = predictions.row[m]
              /\ out.row[m] = SoloValue(m)
        /\ \A k \in Range(autofilled_dict.columns) \ DOMAIN MODELS :
              out.row[k] = autofilled_dict.row[k]

\* the input held a recovery rate and a label; the record returned holds the
\* model's recovery rate, which is another number, and the label
C28_Witness ==
    /\ pc = "p_done"
    /\ predict_result.kind = "ok"
    /\ "Recovery Rate (%)" \in DOMAIN MODELS
    /\ "Recovery Rate (%)" \in Range(autofilled_dict.columns)
    /\ autofilled_dict.row["Recovery Rate (%)"].t = "num"
    /\ predict_result.value.row["Recovery Rate (%)"].t = "num"
    /\ predict_result.value.row["Recovery Rate (%)"] # autofilled_dict.row["Recovery Rate (%)"]
    /\ "Transport Mode" \in Range(autofilled_dict.columns)
    /\ predict_result.value.row["Transport Mode"] = Str("Rail")

----------------------------------------------------------------------------
(* The argument of each function during and after the call *)

\* a step inside a call: the call was entered before it and is not left by it
InsideCall == pc # "idle" /\ pc' # "idle"

(* C29: no step of autofill_missing_values changes the dict it was given,  *)
(* and no step of make_prediction changes the dict it was given, up to and *)
(* including the return or the raise; after make_prediction the dict is    *)
(* still the record autofill_missing_values returned, so its categorical   *)
(* fields hold what they held before the frame was encoded.                *)
C29_ArgumentUnchanged ==
    /\ [][InsideCall =>
            /\ pc \in AutofillStage => input_dict' = input_dict
            /\ pc \in PredictStage => autofilled_dict' = autofilled_dict]_vars
    /\ [](pc \in PredictStage =>
            /\ autofilled_dict = autofill_result.value
            /\ \A c \in DOMAIN label_encoders \cap Range(autofilled_dict.columns) :
                  autofilled_dict.row[c].t = "str")

\* make_prediction returned: its frame holds a code for the transport mode,
\* the dict it was given still holds the label
C29_Witness ==
    /\ pc = "p_done"
    /\ predict_result.kind = "ok"
    /\ "Transport Mode" \in Range(autofilled_dict.columns)
    /\ df_input.row["Transport Mode"].t = "num"
    /\ autofilled_dict.row["Transport Mode"].t = "str"

----------------------------------------------------------------------------
(* The columns the encode loop and the decode loop work on *)

\* step 3: for col in categorical_cols: if col in df_user.columns and col in label_encoders
EncodeLoopColumns(df) ==
    {c \in Range(categorical_cols) : c \in Range(df.columns) /\ c \in DOMAIN label_encoders}

\* step 5: for col in categorical_cols: if col in label_encoders
DecodeLoopColumns == {c \in Range(categorical_cols) : c \in DOMAIN label_encoders}

(* C30: when a call reaches step 5, the columns its decode loop works on   *)
(* are the columns step 3 encoded, all of them columns of the imputed      *)
(* record, and no call fails with the KeyError of a column that is missing *)
(* from the imputed record.                                                *)
C30_EncodeDecodeSymmetry ==
    /\ pc = "a_step5" =>
          /\ DecodeLoopColumns = EncodeLoopColumns(df_user)
          /\ DecodeLoopColumns \subseteq Range(df_imputed.columns)
    /\ AutofillFailed => autofill_result.msg # "KeyError"

====
